---- MODULE Spec2Model ----
(***************************************************************************)
(* Model of LogisticRegression.c: normalize, initNode, activate,           *)
(* computeCost and the batch gradient-descent loop of main.                *)
(*                                                                         *)
(* A C double is modelled as a fixed-point number: the integer n stands    *)
(* for n / Scale.  Finite values lie in -MaxMag..MaxMag; a result beyond   *)
(* that range overflows to an infinity, as IEEE-754 arithmetic does, and   *)
(* the invalid operations (0/0, inf-inf, 0*inf, log of a negative) give    *)
(* NaN.  Signed zeros are not distinguished.                               *)
(***************************************************************************)
EXTENDS Integers, Sequences, FiniteSets, TLC

\* ------------------------------------------------------------------ bounds
MaxInst == 2
MaxFeat == 2
MaxIters == 3
MaxMag == 40000

\* ------------------------------------------------------- double arithmetic
Scale == 10
One == Scale
PosInf == MaxMag + 1
NegInf == 0 - (MaxMag + 1)
NaN == MaxMag + 2

IsNaN(x) == x = NaN
IsInf(x) == x = PosInf \/ x = NegInf
IsFinite(x) == x >= 0 - MaxMag /\ x <= MaxMag

\* n / d rounded to the nearest integer, d # 0
RDiv(n, d) ==
  IF d > 0 THEN (2 * n + d) \div (2 * d)
           ELSE (2 * (0 - n) + (0 - d)) \div (2 * (0 - d))

\* overflow of a finite result to an infinity
Fix(n) == IF n > MaxMag THEN PosInf ELSE IF n < 0 - MaxMag THEN NegInf ELSE n

Sign(x) == IF x < 0 THEN 0 - 1 ELSE 1

FNeg[a \in Int] == IF IsNaN(a) THEN NaN ELSE 0 - a

FAdd[a \in Int, b \in Int] ==
  IF IsNaN(a) \/ IsNaN(b) THEN NaN
  ELSE IF IsInf(a) /\ IsInf(b) THEN (IF a = b THEN a ELSE NaN)
  ELSE IF IsInf(a) THEN a
  ELSE IF IsInf(b) THEN b
  ELSE Fix(a + b)

FSub[a \in Int, b \in Int] == FAdd[a, FNeg[b]]

FMul[a \in Int, b \in Int] ==
  IF IsNaN(a) \/ IsNaN(b) THEN NaN
  ELSE IF IsInf(a) \/ IsInf(b)
       THEN (IF a = 0 \/ b = 0 THEN NaN
             ELSE IF Sign(a) = Sign(b) THEN PosInf ELSE NegInf)
  ELSE Fix(RDiv(a * b, Scale))

FDiv[a \in Int, b \in Int] ==
  IF IsNaN(a) \/ IsNaN(b) THEN NaN
  ELSE IF IsInf(a) THEN (IF IsInf(b) THEN NaN
                         ELSE IF Sign(a) = Sign(b) THEN PosInf ELSE NegInf)
  ELSE IF IsInf(b) THEN 0
  ELSE IF b = 0 THEN (IF a = 0 THEN NaN ELSE IF a > 0 THEN PosInf ELSE NegInf)
  ELSE Fix(RDiv(a * Scale, b))

\* a > b on doubles: false when either side is NaN
FGt(a, b) == ~IsNaN(a) /\ ~IsNaN(b) /\ a > b
\* a <= b on doubles: false when either side is NaN
FLe(a, b) == ~IsNaN(a) /\ ~IsNaN(b) /\ a <= b
\* a == b on doubles: false when either side is NaN
FEq(a, b) == ~IsNaN(a) /\ ~IsNaN(b) /\ a = b

\* exp(x / Scale) * Scale to the nearest unit, for x = ExpLo .. ExpHi
ExpLo == 0 - 30
ExpHi == 90
ExpTab ==
  << 0, 1, 1, 1, 1, 1, 1, 1, 1, 1, 1, 1, 2, 2, 2, 2, 2, 3, 3, 3, 4, 4, 4, 5,
     5, 6, 7, 7, 8, 9, 10, 11, 12, 13, 15, 16, 18, 20, 22, 25, 27, 30, 33, 37,
     41, 45, 50, 55, 60, 67, 74, 82, 90, 100, 110, 122, 135, 149, 164, 182,
     201, 222, 245, 271, 300, 331, 366, 404, 447, 494, 546, 603, 667, 737,
     815, 900, 995, 1099, 1215, 1343, 1484, 1640, 1813, 2003, 2214, 2447,
     2704, 2989, 3303, 3650, 4034, 4459, 4927, 5446, 6018, 6651, 7351, 8124,
     8978, 9923, 10966, 12120, 13394, 14803, 16360, 18080, 19982, 22083,
     24406, 26973, 29810, 32945, 36410, 40239, 44471, 49148, 54317, 60029,
     66342, 73320, 81031 >>

\* exp: underflows to 0 below ExpLo, overflows to +inf above the range
Exp[x \in Int] ==
  IF IsNaN(x) THEN NaN
  ELSE IF x = PosInf THEN PosInf
  ELSE IF x < ExpLo THEN 0
  ELSE IF x > ExpHi THEN PosInf
  ELSE Fix(ExpTab[x - ExpLo + 1])

\* log(x / Scale) * Scale to the nearest unit, for x = 1 .. Scale
LogTab == << 0 - 23, 0 - 16, 0 - 12, 0 - 9, 0 - 7, 0 - 5, 0 - 4, 0 - 2, 0 - 1, 0 >>
Ln2 == 7

\* log: -inf at 0, NaN below 0; above 1.0 by log(x) = log 2 + log(x / 2)
Log[x \in Int] ==
  IF IsNaN(x) THEN NaN
  ELSE IF x < 0 THEN NaN
  ELSE IF x = 0 THEN NegInf
  ELSE IF x = PosInf THEN PosInf
  ELSE IF x <= Scale THEN LogTab[x]
  ELSE FAdd[Ln2, Log[RDiv(x, 2)]]

\* ------------------------------------------------------------------- state
VARIABLES
  numInst,        \* trainSetImporter.GetNumInstances()
  numFeatures,    \* featureVec.size()
  featureVec,     \* per-column descriptors [min, max, mean], indexed 0..numFeatures-1
  featureBuff,    \* row-major matrix, indexed 0..numInst*numFeatures-1
  classIndexBuff, \* labels, indexed 0..numInst-1
  maxIter,        \* iteration cap of the loop (200 in main), an input here so that the cap is reached
  pc,             \* position in main
  ni,             \* normalize: column index i
  weights,        \* node.weights, indexed 0..numFeatures (last = bias)
  inputs,         \* node.inputs: offset of the row it points at, -1 before the first activate
  output,         \* node.output
  iter,           \* unsigned int; stays far below 2^32 for every maxIter considered
  costSumPre,
  deltaCostSum,
  costSumNew,
  batchArr,       \* gradient accumulator, indexed 0..numFeatures-1
  rowIdx,         \* row loop index i
  featureVec0,    \* history: descriptors handed to normalize
  featureBuff0,   \* history: matrix handed to normalize
  cellWrites,     \* history: number of stores to each matrix cell
  weightWrites,   \* history: number of stores to each weight after initNode
  numUpdates,     \* history: completed weight-update loops
  numActivations, \* history: calls of activate
  weightsAtStart  \* history: weights when the current iteration began

vars == << numInst, numFeatures, featureVec, featureBuff, classIndexBuff, maxIter,
           pc, ni, weights, inputs, output, iter, costSumPre, deltaCostSum,
           costSumNew, batchArr, rowIdx, featureVec0, featureBuff0, cellWrites,
           weightWrites, numUpdates, numActivations, weightsAtStart >>

dataVars == << numInst, numFeatures, featureVec, classIndexBuff, maxIter,
               featureVec0, featureBuff0 >>

\* ------------------------------------------------------------------ inputs
\* the values a parsed cell takes: 0.0 and 1.0
Cells == {0, One}
Descriptors ==
  { [min |-> a, max |-> b, mean |-> m] :
      a \in Cells, b \in Cells, m \in Cells }
ValidDescriptors == { d \in Descriptors : d.min <= d.mean /\ d.mean <= d.max }
Labels == {0, 1}

RECURSIVE ColumnSum(_, _, _, _, _)
\* sum of the cells of column i over the rows j .. n-1
ColumnSum(buf, i, j, n, nf) ==
  IF j >= n THEN 0 ELSE FAdd[buf[j * nf + i], ColumnSum(buf, i, j + 1, n, nf)]

\* the descriptor the importer leaves for column i of a matrix with n >= 1
\* rows: the minimum, the maximum and the mean (sum / row count) of its cells
ImportedDescriptor(buf, i, n, nf) ==
  LET col == { buf[j * nf + i] : j \in 0 .. n - 1 }
  IN [min  |-> CHOOSE a \in col : \A x \in col : a <= x,
      max  |-> CHOOSE b \in col : \A x \in col : x <= b,
      mean |-> FDiv[ColumnSum(buf, i, 0, n, nf), n * Scale]]

\* (double) of an unsigned int
ToDouble(n) == Fix(n * Scale)

\* ---------------------------------------------------------------- initNode
\* memset(.., 1, ..) makes every double 0x0101010101010101 = 7.7e-304,
\* which is 0 at fixed-point resolution
InitWeight == 0
initNode(nf) == [k \in 0 .. nf |-> InitWeight]

\* --------------------------------------------------------------- normalize
Range(d) == FSub[d.max, d.min]

SkipColumn_Never(d) == FALSE
\* if (range == 0.0) continue;
SkipColumn(d) == FEq(Range(d), 0)

NormalizedCell_MinMax(v, d) == FDiv[FSub[v, d.min], Range(d)]
\* (featureBuff[featureIndex] - featureVec[i].mean) / range
NormalizedCell(v, d) == FDiv[FSub[v, d.mean], Range(d)]

\* unsigned int featureIndex = j * numFeatures + i
FeatureIndex(j, i, nf) == j * nf + i

RECURSIVE NormalizeRows(_, _, _, _, _, _)
\* the inner loop over rows j .. n-1 of column i: the stores it makes
NormalizeRows(st, d, i, j, n, nf) ==
  IF j >= n THEN st
  ELSE LET idx == FeatureIndex(j, i, nf)
       IN NormalizeRows(
            [buf |-> [st.buf EXCEPT ![idx] = NormalizedCell(@, d)],
             wr  |-> [st.wr EXCEPT ![idx] = @ + 1]],
            d, i, j + 1, n, nf)

\* one pass of the outer loop of normalize, for column ni
NormalizeColumn ==
  /\ pc = "normalize"
  /\ ni < numFeatures
  /\ LET d  == featureVec[ni]
         st == IF SkipColumn(d)
               THEN [buf |-> featureBuff, wr |-> cellWrites]
               ELSE NormalizeRows([buf |-> featureBuff, wr |-> cellWrites],
                                  d, ni, 0, numInst, numFeatures)
     IN /\ featureBuff' = st.buf
        /\ cellWrites' = st.wr
  /\ ni' = ni + 1
  /\ UNCHANGED << dataVars, pc, weights, inputs, output, iter, costSumPre,
                  deltaCostSum, costSumNew, batchArr, rowIdx, weightWrites,
                  numUpdates, numActivations, weightsAtStart >>

\* ------------------------------------------------------------------- main
alpha == 50 * Scale
ConvergenceThreshold == One

LoopEntry_While == "test"
\* do { ... } while (..): the body is entered before the condition is tested
LoopEntry == "reset"

\* normalize returns; lines 80-86: initNode and the locals of main.
\* batchArr comes from malloc: its content is arbitrary until the memset.
InitNode ==
  /\ pc = "normalize"
  /\ ni = numFeatures
  /\ weights' = initNode(numFeatures)
  /\ weightWrites' = [k \in 0 .. numFeatures |-> 0]
  /\ weightsAtStart' = initNode(numFeatures)
  /\ iter' = 0
  /\ costSumPre' = 0
  /\ deltaCostSum' = 0
  /\ \E g \in {0, One} : batchArr' = [j \in 0 .. numFeatures - 1 |-> g]
  /\ pc' = LoopEntry
  /\ UNCHANGED << dataVars, featureBuff, ni, inputs, output, costSumNew, rowIdx,
                  cellWrites, numUpdates, numActivations >>

ResetBatchArr_Keep(b) == b
\* memset( batchArr, 0, numFeatures * sizeof( double ) )
ResetBatchArr(b) == [j \in DOMAIN b |-> 0]

\* top of the loop body: the two accumulators are cleared
BeginIteration ==
  /\ pc = "reset"
  /\ costSumNew' = 0
  /\ batchArr' = ResetBatchArr(batchArr)
  /\ rowIdx' = 0
  /\ weightsAtStart' = weights
  /\ pc' = "rows"
  /\ UNCHANGED << dataVars, featureBuff, ni, weights, inputs, output, iter,
                  costSumPre, deltaCostSum, cellWrites, weightWrites,
                  numUpdates, numActivations >>

RECURSIVE LinearRes(_, _, _, _, _, _)
\* linearRes += node->weights[i] * node->inputs[i], for i .. nf-1
LinearRes(acc, w, buf, off, i, nf) ==
  IF i >= nf THEN acc
  ELSE LinearRes(FAdd[acc, FMul[w[i], buf[off + i]]], w, buf, off, i + 1, nf)

\* node->output of activate for the row at offset off
activate(w, buf, off, nf) ==
  LET linearRes == LinearRes(w[nf], w, buf, off, 0, nf)
  IN FDiv[One, FAdd[One, Exp[FNeg[linearRes]]]]

computeCost(hRes, y) ==
  IF y # 0 THEN FNeg[Log[hRes]] ELSE FNeg[Log[FSub[One, hRes]]]

RowOffset(i) == i * numFeatures
HRes == activate(weights, featureBuff, RowOffset(rowIdx), numFeatures)
Diff == FSub[HRes, ToDouble(classIndexBuff[rowIdx])]

\* one pass of the row loop, lines 100-102
ActivateRowCore ==
  /\ pc = "rows"
  /\ rowIdx < numInst
  /\ inputs' = RowOffset(rowIdx)
  /\ output' = HRes
  /\ costSumNew' = FAdd[costSumNew, computeCost(HRes, classIndexBuff[rowIdx])]
  /\ rowIdx' = rowIdx + 1
  /\ numActivations' = numActivations + 1
  /\ UNCHANGED << dataVars, pc, ni, weights, iter, costSumPre, deltaCostSum,
                  cellWrites, weightWrites, numUpdates, weightsAtStart >>

ActivateRow_StoresIntoInputs ==
  /\ ActivateRowCore
  /\ featureBuff' =
       [idx \in DOMAIN featureBuff |->
          IF idx >= RowOffset(rowIdx) /\ idx < RowOffset(rowIdx) + numFeatures
          THEN FAdd[featureBuff[idx], FMul[Diff, featureBuff[idx]]]
          ELSE featureBuff[idx]]
  /\ batchArr' = batchArr
\* one pass of the row loop with its gradient loop, lines 98-105
ActivateRow ==
  /\ ActivateRowCore
  /\ batchArr' =
       [j \in DOMAIN batchArr |->
          FAdd[batchArr[j], FMul[Diff, featureBuff[RowOffset(rowIdx) + j]]]]
  /\ featureBuff' = featureBuff

\* the row loop is over; lines 107-108
ComputeDelta ==
  /\ pc = "rows"
  /\ rowIdx = numInst
  /\ deltaCostSum' = FSub[costSumPre, costSumNew]
  /\ costSumPre' = costSumNew
  /\ pc' = "update"
  /\ UNCHANGED << dataVars, featureBuff, ni, weights, inputs, output, iter,
                  costSumNew, batchArr, rowIdx, cellWrites, weightWrites,
                  numUpdates, numActivations, weightsAtStart >>

WeightIndex_Shifted(j) == j + 1
\* node.weights[j]
WeightIndex(j) == j

RECURSIVE UpdateLoop(_, _, _, _, _)
\* node.weights[j] -= alpha / (double) numInst * batchArr[j], for j .. nf-1
UpdateLoop(st, batch, j, n, nf) ==
  IF j >= nf THEN st
  ELSE LET k == WeightIndex(j)
       IN UpdateLoop(
            [w  |-> [st.w EXCEPT ![k] =
                       FSub[@, FMul[FDiv[alpha, ToDouble(n)], batch[j]]]],
             wr |-> [st.wr EXCEPT ![k] = @ + 1]],
            batch, j + 1, n, nf)

\* lines 114-117: the weight update and iter++
UpdateWeights ==
  /\ pc = "update"
  /\ LET st == UpdateLoop([w |-> weights, wr |-> weightWrites], batchArr, 0,
                          numInst, numFeatures)
     IN /\ weights' = st.w
        /\ weightWrites' = st.wr
  /\ iter' = iter + 1
  /\ numUpdates' = numUpdates + 1
  /\ pc' = "test"
  /\ UNCHANGED << dataVars, featureBuff, ni, inputs, output, costSumPre,
                  deltaCostSum, costSumNew, batchArr, rowIdx, cellWrites,
                  numActivations, weightsAtStart >>

LoopCondition_Or(it, delta, mx) ==
  it = 1 \/ (FGt(delta, ConvergenceThreshold) \/ it < mx)
LoopCondition_OffByOne(it, delta, mx) ==
  it = 1 \/ (FGt(delta, ConvergenceThreshold) /\ it <= mx)
LoopCondition_NoFirstPass(it, delta, mx) ==
  FGt(delta, ConvergenceThreshold) /\ it < mx
\* iter == 1 || (deltaCostSum > 1.0 && iter < maxIter)
LoopCondition(it, delta, mx) ==
  it = 1 \/ (FGt(delta, ConvergenceThreshold) /\ it < mx)

loopFrame == << dataVars, featureBuff, ni, weights, inputs, output, iter,
                costSumPre, deltaCostSum, costSumNew, batchArr, rowIdx,
                cellWrites, weightWrites, numUpdates, numActivations,
                weightsAtStart >>

\* the condition holds: back to the top of the body
TestContinue ==
  /\ pc = "test"
  /\ LoopCondition(iter, deltaCostSum, maxIter)
  /\ pc' = "reset"
  /\ UNCHANGED loopFrame

\* the condition fails: the loop is left
TestHalt ==
  /\ pc = "test"
  /\ ~LoopCondition(iter, deltaCostSum, maxIter)
  /\ pc' = "Converged"
  /\ UNCHANGED loopFrame

\* ----------------------------------------------------------- specification
\* the state main is in when normalize is called: the importer has delivered
\* the matrix, the labels and the descriptors of the matrix's columns
Init ==
  /\ numFeatures \in 0 .. MaxFeat
  /\ numInst \in 0 .. MaxInst
  /\ maxIter \in 1 .. MaxIters
  /\ featureBuff \in [0 .. numInst * numFeatures - 1 -> Cells]
  /\ IF numInst = 0
     THEN featureVec \in [0 .. numFeatures - 1 -> ValidDescriptors]
     ELSE featureVec = [i \in 0 .. numFeatures - 1 |->
                          ImportedDescriptor(featureBuff, i, numInst, numFeatures)]
  /\ classIndexBuff \in [0 .. numInst - 1 -> Labels]
  /\ featureVec0 = featureVec
  /\ featureBuff0 = featureBuff
  /\ cellWrites = [idx \in 0 .. numInst * numFeatures - 1 |-> 0]
  /\ pc = "normalize"
  /\ ni = 0
  /\ weights = << >>
  /\ weightWrites = << >>
  /\ weightsAtStart = << >>
  /\ inputs = 0 - 1
  /\ output = 0
  /\ iter = 0
  /\ costSumPre = 0
  /\ deltaCostSum = 0
  /\ costSumNew = 0
  /\ batchArr = << >>
  /\ rowIdx = 0
  /\ numUpdates = 0
  /\ numActivations = 0

Next ==
  \/ NormalizeColumn
  \/ InitNode
  \/ BeginIteration
  \/ ActivateRow
  \/ ComputeDelta
  \/ UpdateWeights
  \/ TestContinue
  \/ TestHalt

Spec == Init /\ [][Next]_vars

\* main is one sequential thread: whenever a step is possible it is taken
FairSpec == Spec /\ WF_vars(Next)

TypeOK ==
  /\ pc \in {"normalize", "reset", "rows", "update", "test", "Converged"}
  /\ iter \in Nat
  /\ numInst \in 0 .. MaxInst
  /\ numFeatures \in 0 .. MaxFeat
  /\ DOMAIN featureBuff = 0 .. numInst * numFeatures - 1

\* ------------------------------------------------------------------ claims
Max2(n) == IF n > 2 THEN n ELSE 2
Columns == 0 .. numFeatures - 1
Rows == 0 .. numInst - 1

\* C1: when the loop condition is evaluated with iter >= 2 and a delta-cost
\* <= the threshold, the next step leaves the loop, and once the loop is left
\* no activation and no weight update happens any more.
C1_HaltOnSmallDelta ==
  [][ /\ (pc = "test" /\ iter >= 2 /\ FLe(deltaCostSum, ConvergenceThreshold))
         => (pc' = "Converged" /\ weights' = weights
             /\ numActivations' = numActivations /\ numUpdates' = numUpdates)
      /\ pc = "Converged"
         => (pc' = "Converged" /\ weights' = weights
             /\ numActivations' = numActivations /\ numUpdates' = numUpdates)
    ]_vars

\* the loop was left by the delta-cost test while the cap still allowed a pass
C1_Witness ==
  /\ pc = "Converged"
  /\ iter >= 2
  /\ iter < maxIter
  /\ FLe(deltaCostSum, ConvergenceThreshold)
  /\ numUpdates = iter

C3_OneFullIterationFirst ==
  /\ pc = "update" => rowIdx = numInst
  /\ numUpdates >= 1 => numActivations >= numInst
  /\ pc = "Converged" =>
       /\ iter >= 1
       /\ numUpdates >= 1
       /\ numActivations >= numInst
       /\ \A k \in Columns : weightWrites[k] >= 1

\* training has ended on a dataset with rows and features
C3_Witness ==
  /\ pc = "Converged"
  /\ numInst >= 1
  /\ numFeatures >= 1
  /\ numUpdates >= 1

\* C4: normalize never changes the descriptors, and leaves every cell of a
\* column whose range max - min is 0 as it was.
C4_NormalizeFrame ==
  /\ featureVec = featureVec0
  /\ \A i \in Columns :
       FEq(FSub[featureVec0[i].max, featureVec0[i].min], 0) =>
         \A j \in Rows :
           featureBuff[j * numFeatures + i] = featureBuff0[j * numFeatures + i]

\* normalize has returned, having rewritten some column and skipped a constant one
C4_Witness ==
  /\ pc = "reset"
  /\ numInst >= 1
  /\ featureBuff # featureBuff0
  /\ \E i \in Columns : featureVec[i].max = featureVec[i].min

\* C5: once column i has been processed, each of its cells holds
\* (v - mean[i]) / (max[i] - min[i]) for its original value v when the range
\* is not 0, and was stored exactly once; the cells of the columns not yet
\* processed are untouched.
C5_NormalizedCells ==
  \A i \in Columns : \A j \in Rows :
    LET idx == j * numFeatures + i
        d == featureVec0[i]
        range == FSub[d.max, d.min]
    IN IF i < ni
       THEN ~FEq(range, 0) =>
              /\ featureBuff[idx] = FDiv[FSub[featureBuff0[idx], d.mean], range]
              /\ cellWrites[idx] = 1
       ELSE /\ featureBuff[idx] = featureBuff0[idx]
            /\ cellWrites[idx] = 0

\* normalize has returned and moved a cell of a column whose mean is not its min
C5_Witness ==
  /\ pc = "reset"
  /\ \E i \in Columns : \E j \in Rows :
       /\ featureVec[i].max # featureVec[i].min
       /\ featureVec[i].mean # featureVec[i].min
       /\ featureBuff[j * numFeatures + i] # featureBuff0[j * numFeatures + i]

\* C6: no activation happens before normalize has returned, and from then on
\* no step changes the feature matrix or the label vector.
C6_MatrixReadOnlyAfterNormalize ==
  [][ /\ pc = "normalize" => numActivations = 0
      /\ classIndexBuff' = classIndexBuff
      /\ pc # "normalize" => featureBuff' = featureBuff
    ]_vars

\* training has ended on a matrix that normalize rewrote
C6_Witness ==
  /\ pc = "Converged"
  /\ featureBuff # featureBuff0
  /\ numActivations >= 2

\* C7: training never ends normally after an iteration that produced a
\* non-finite cost sum or a non-finite weight.
C7_NoSilentDivergence ==
  pc = "Converged" =>
    /\ IsFinite(costSumPre)
    /\ \A k \in DOMAIN weights : IsFinite(weights[k])

\* C8: after initNode the weight vector keeps the indices 0..numFeatures, the
\* bias keeps its initial value and is never stored to, and every weight
\* update stores once to each index 0..numFeatures-1.
C8_BiasFrozen ==
  pc # "normalize" =>
    /\ DOMAIN weights = 0 .. numFeatures
    /\ weights[numFeatures] = InitWeight
    /\ weightWrites[numFeatures] = 0
    /\ \A k \in Columns : weightWrites[k] = numUpdates

\* training has ended with a feature weight moved away from its initial value
C8_Witness ==
  /\ pc = "Converged"
  /\ numUpdates >= 2
  /\ \E k \in Columns : weights[k] # InitWeight

RECURSIVE GradSum(_, _, _)
\* sum over the rows j .. numInst-1 of (activate(weights, row) - label) * row[k]
GradSum(acc, k, j) ==
  IF j >= numInst THEN acc
  ELSE GradSum(
         FAdd[acc,
              FMul[FSub[activate(weights, featureBuff, j * numFeatures, numFeatures),
                        ToDouble(classIndexBuff[j])],
                   featureBuff[j * numFeatures + k]]],
         k, j + 1)

\* C9: both accumulators are zero when the row loop starts, the weights are
\* those of the start of the iteration while the rows are activated, and at
\* the weight update gradient[k] is the sum over all rows of this iteration.
C9_BatchStep ==
  /\ (pc = "rows" /\ rowIdx = 0) =>
       (costSumNew = 0 /\ \A k \in Columns : batchArr[k] = 0)
  /\ pc \in {"rows", "update"} => weights = weightsAtStart
  /\ pc = "update" => \A k \in Columns : batchArr[k] = GradSum(0, k, 0)

\* a later iteration is about to update the weights with a gradient that is not 0
C9_Witness ==
  /\ pc = "update"
  /\ iter >= 1
  /\ numInst >= 2
  /\ \E k \in Columns : batchArr[k] # 0

\* C10: the delta-cost of the first iteration is minus the first cost sum and
\* never exceeds the threshold; the loop always makes a second pass, so it is
\* left with at least 2 and at most max(2, maxIterations) iterations done.
C10_AtLeastTwoIterations ==
  /\ (pc = "test" /\ iter = 1) =>
       /\ deltaCostSum = FNeg[costSumPre]
       /\ ~FGt(deltaCostSum, ConvergenceThreshold)
  /\ pc = "Converged" =>
       /\ iter >= 2
       /\ numUpdates >= 2
       /\ numActivations >= 2 * numInst
       /\ iter <= Max2(maxIter)

\* a second pass was made although maxIterations is 1
C10_Witness ==
  /\ pc = "Converged"
  /\ maxIter = 1
  /\ iter = 2
  /\ numUpdates = 2

====
